---- MODULE Spec2Model ----
(***************************************************************************)
(* Model of voting_system.py: the Block / Blockchain classes, the three    *)
(* ledger operations (add_voter, add_candidate, cast_vote) and the chain   *)
(* validator.  Strings are TLA+ strings, so stripping, JSON serialisation  *)
(* and the separator-free block string are computed character by           *)
(* character as the Python code computes them.                             *)
(***************************************************************************)
EXTENDS Integers, Sequences, FiniteSets, TLC

\* ------------------------------------------------------------------ bounds
\* largest number of blocks the chain may hold (genesis included)
MaxChain == 5

\* -------------------------------------------------------- program constants
\* the difficulty main() constructs the Blockchain with (also the default)
DefaultDifficulty == 3
\* number of characters of the genesis block's previous_hash ("0" * 64)
ZeroHashLen == 64
\* the digest's digit characters are "0" .. DigestRadix - 1: hexdigest's 16
\* reduced so that the nonce search of mine_block stays short
DigestRadix == 2
\* number of leading digest characters that vary with the checksum
DigestHeadLen == 3
\* number of trailing characters of the hashed string the checksum reads
DigestWindow == 6

\* ------------------------------------------------------------- the inputs
\* the (voter_id, name) arguments of the add_voter calls
VoterCalls ==
  {<<"V1", "Al">>, <<" V1 ", " Bo ">>, <<"V2", "Al">>, <<" ", "Al">>, <<"V2", "">>}
\* the (candidate_id, name) arguments of the add_candidate calls
CandidateCalls ==
  {<<"C1", "Ro">>, <<"C1 ", "Li">>, <<" C2", "Li ">>, <<"", " ">>}
\* the (voter_id, candidate_id) arguments of the cast_vote calls
VoteCalls ==
  {<<"V1", "C1">>, <<" V1 ", " C2">>, <<"V2", "C1 ">>, <<"V1", "C3">>, <<"V3", "C1">>}
\* the values time.time() returns, in seconds
Times == {1, 2}

\* ------------------------------------------------------- string utilities
CharAt(s, i) == SubSeq(s, i, i)

IsSpace(c) == c \in {" ", "\t", "\n"}

RECURSIVE lstrip(_)
lstrip(s) ==
  IF Len(s) > 0 /\ IsSpace(CharAt(s, 1)) THEN lstrip(SubSeq(s, 2, Len(s))) ELSE s

RECURSIVE rstrip(_)
rstrip(s) ==
  IF Len(s) > 0 /\ IsSpace(CharAt(s, Len(s)))
  THEN rstrip(SubSeq(s, 1, Len(s) - 1)) ELSE s

\* strip() removing leading whitespace only
strip_leading(s) == lstrip(s)

\* str.strip(): leading and trailing whitespace removed
strip(s) == rstrip(lstrip(s))

RECURSIVE Repeat(_, _)
\* c * n
Repeat(c, n) == IF n <= 0 THEN "" ELSE c \o Repeat(c, n - 1)

startswith(s, prefix) ==
  Len(prefix) <= Len(s) /\ SubSeq(s, 1, Len(prefix)) = prefix

DigitChar(d) == CharAt("0123456789", d + 1)

RECURSIVE IntStr(_)
\* str(n) of a non-negative int
IntStr(n) == IF n < 10 THEN DigitChar(n) ELSE IntStr(n \div 10) \o DigitChar(n % 10)

\* str(x) of a float holding a whole number of seconds
FloatStr(t) == IntStr(t) \o ".0"

\* json.dumps of a str made of characters that need no escape
JsonStr(s) == "\"" \o s \o "\""

JsonBool(b) == IF b THEN "true" ELSE "false"

\* ------------------------------------------------------------ data models
\* a Voter whose has_voted defaults to True
Voter_voted(voter_id, name) == [voter_id |-> voter_id, name |-> name, has_voted |-> TRUE]

Voter(voter_id, name) == [voter_id |-> voter_id, name |-> name, has_voted |-> FALSE]

Candidate(candidate_id, name) == [candidate_id |-> candidate_id, name |-> name]

Transaction(tx_type, payload, timestamp) ==
  [tx_type |-> tx_type, payload |-> payload, timestamp |-> timestamp]

\* asdict(voter) is a fresh dict: the payload is a copy of the voter's fields
Transaction_add_voter(voter, t) == Transaction("ADD_VOTER", voter, t)

Transaction_add_candidate(candidate, t) == Transaction("ADD_CANDIDATE", candidate, t)

\* a CAST_VOTE payload with the two ids in each other's place
Transaction_cast_vote_swapped(voter_id, candidate_id, t) ==
  Transaction("CAST_VOTE", [voter_id |-> candidate_id, candidate_id |-> voter_id], t)

Transaction_cast_vote(voter_id, candidate_id, t) ==
  Transaction("CAST_VOTE", [voter_id |-> voter_id, candidate_id |-> candidate_id], t)

GenesisTx(t) == Transaction("GENESIS", [message |-> "Voting chain initiated"], t)

\* ------------------------------------------------- canonical serialisation
\* json.dumps(payload, sort_keys=True): keys in sorted order
PayloadJson(tx) ==
  CASE tx.tx_type = "ADD_VOTER" ->
         "{\"has_voted\": " \o JsonBool(tx.payload.has_voted)
           \o ", \"name\": " \o JsonStr(tx.payload.name)
           \o ", \"voter_id\": " \o JsonStr(tx.payload.voter_id) \o "}"
    [] tx.tx_type = "ADD_CANDIDATE" ->
         "{\"candidate_id\": " \o JsonStr(tx.payload.candidate_id)
           \o ", \"name\": " \o JsonStr(tx.payload.name) \o "}"
    [] tx.tx_type = "CAST_VOTE" ->
         "{\"candidate_id\": " \o JsonStr(tx.payload.candidate_id)
           \o ", \"voter_id\": " \o JsonStr(tx.payload.voter_id) \o "}"
    [] OTHER ->
         "{\"message\": " \o JsonStr(tx.payload.message) \o "}"

TxJson(tx) ==
  "{\"payload\": " \o PayloadJson(tx)
    \o ", \"timestamp\": " \o FloatStr(tx.timestamp)
    \o ", \"tx_type\": " \o JsonStr(tx.tx_type) \o "}"

RECURSIVE TxListJson(_, _)
TxListJson(txs, i) ==
  IF i > Len(txs) THEN ""
  ELSE (IF i > 1 THEN ", " ELSE "") \o TxJson(txs[i]) \o TxListJson(txs, i + 1)

\* json.dumps([asdict(tx) for tx in self.transactions], sort_keys=True)
tx_str(txs) == "[" \o TxListJson(txs, 1) \o "]"

\* f"{index}{timestamp}{tx_str}{previous_hash}{nonce}{difficulty}"
block_string(b) ==
  IntStr(b.index) \o FloatStr(b.timestamp) \o tx_str(b.transactions)
    \o b.previous_hash \o IntStr(b.nonce) \o IntStr(b.difficulty)

\* ------------------------------------------------------------- the digest
Alphabet ==
  "0123456789 abcdefghijklmnopqrstuvwxyzABCDEFGHIJKLMNOPQRSTUVWXYZ_[]{}\":,.-"

AlphabetChars == {CharAt(Alphabet, i) : i \in 1..Len(Alphabet)}

CodeOf == [c \in AlphabetChars |-> CHOOSE i \in 1..Len(Alphabet) : CharAt(Alphabet, i) = c]

Code(c) == IF c \in AlphabetChars THEN CodeOf[c] ELSE 0

RECURSIVE CodeSum(_, _, _)
\* sum of the character codes of s[lo..hi]
CodeSum(s, lo, hi) ==
  IF lo > hi THEN 0 ELSE Code(CharAt(s, lo)) + CodeSum(s, lo + 1, hi)

\* the number the leading digest characters are derived from: the length of s
\* and the codes of its last DigestWindow characters
CheckSum(s) ==
  Len(s) + CodeSum(s, IF Len(s) > DigestWindow THEN Len(s) - DigestWindow + 1 ELSE 1, Len(s))

RECURSIVE DigestHead(_, _)
\* the k leading digest characters: the digits of n, least significant first
DigestHead(n, k) ==
  IF k = 0 THEN ""
  ELSE DigitChar(n % DigestRadix) \o DigestHead(n \div DigestRadix, k - 1)

\* hashlib.sha256(s.encode()).hexdigest(): a deterministic digest without
\* collisions (the digest carries s itself after its leading characters)
sha256(s) == DigestHead(CheckSum(s), DigestHeadLen) \o s

\* Block.calculate_hash
calculate_hash(b) == sha256(block_string(b))

\* mine_block without the search: the hash under nonce 0
mine_block_nosearch(b) == [nonce |-> b.nonce, h |-> calculate_hash(b)]

RECURSIVE mine_block(_)
\* Block.mine_block: the nonce the search stops at (left in self.nonce) and
\* the hash it returns
mine_block(b) ==
  LET prefix == Repeat("0", b.difficulty)
      h == calculate_hash(b)
  IN  IF startswith(h, prefix) THEN [nonce |-> b.nonce, h |-> h]
      ELSE mine_block([b EXCEPT !.nonce = b.nonce + 1])

\* Block.__init__ storing the hash computed before the search moved the nonce
Block_stalehash(index, transactions, previous_hash, difficulty, t) ==
  LET b0 == [index |-> index, timestamp |-> t, transactions |-> transactions,
             previous_hash |-> previous_hash, nonce |-> 0,
             difficulty |-> difficulty, hash |-> ""]
  IN  [b0 EXCEPT !.nonce = mine_block(b0).nonce, !.hash = calculate_hash(b0)]

\* Block.__init__ at time t
Block(index, transactions, previous_hash, difficulty, t) ==
  LET b0 == [index |-> index, timestamp |-> t, transactions |-> transactions,
             previous_hash |-> previous_hash, nonce |-> 0,
             difficulty |-> difficulty, hash |-> ""]
      mined == mine_block(b0)
  IN  [b0 EXCEPT !.nonce = mined.nonce, !.hash = mined.h]

ZeroHash == Repeat("0", ZeroHashLen)

\* ------------------------------------------------------------- the ledger
VARIABLES
  difficulty,   \* Blockchain.difficulty
  chain,        \* Blockchain.chain: sequence of blocks, chain[i+1] is block i
  voters,       \* Blockchain.voters: voter_id -> Voter
  candidates,   \* Blockchain.candidates: candidate_id -> Candidate
  result,       \* the last call: its name, arguments, return value, message
  successes,    \* number of mutating calls that returned True
  voted_ok,     \* voter ids for which a cast_vote call returned True
  now,          \* the last value time.time() returned
  tampered,     \* index of the block a stored field of which was overwritten, 0 if none
  mining,       \* Block constructor calls in progress: run -> the block's fields and position
  callers,      \* threads inside a ledger operation: thread -> its arguments, locals and position
  serial        \* two field tuples and the hash inputs built from them

\* the variables the ledger operations called one at a time never touch
aside == <<mining, callers, serial>>

vars ==
  <<difficulty, chain, voters, candidates, result, successes, voted_ok, now, tampered,
    aside>>

\* the values a time.time() call may return after one that returned t
Later(t) == {u \in Times : u >= t}

NoTable == [k \in {} |-> k]

\* the table left as it was
Put_noop(table, key, value) == table

\* table[key] = value
Put(table, key, value) ==
  [k \in DOMAIN table \cup {key} |-> IF k = key THEN value ELSE table[k]]

\* the last call's name, arguments, return value, and the message it printed
\* (named after the error it reports) with the block index in it
Outcome(op, a1, a2, ok, msg, index) ==
  [op |-> op, a1 |-> a1, a2 |-> a2, ok |-> ok, msg |-> msg, index |-> index]

\* Blockchain._create_genesis_block with a clock reading t1 then t2
create_genesis_block(d, t1, t2) == Block(0, <<GenesisTx(t1)>>, ZeroHash, d, t2)

\* Blockchain.get_latest_block
get_latest_block(c) == c[Len(c)]

\* _add_block numbering the block one too high
add_block_index1(c, d, txs, t) ==
  Append(c, Block(Len(c) + 1, txs, get_latest_block(c).hash, d, t))

\* _add_block linking every block to the genesis sentinel
add_block_nolink(c, d, txs, t) == Append(c, Block(Len(c), txs, ZeroHash, d, t))

\* _add_block storing the new block over the latest one
add_block_replace(c, d, txs, t) ==
  [c EXCEPT ![Len(c)] = Block(Len(c), txs, get_latest_block(c).hash, d, t)]

\* Blockchain._add_block: the chain after the append, the block built at time t
add_block(c, d, txs, t) == Append(c, Block(Len(c), txs, get_latest_block(c).hash, d, t))

\* Blockchain.__init__
InitLedger ==
  \E t1 \in Times : \E t2 \in Later(t1) :
    /\ difficulty = DefaultDifficulty
    /\ chain = <<create_genesis_block(DefaultDifficulty, t1, t2)>>
    /\ voters = NoTable
    /\ candidates = NoTable
    /\ result = Outcome("init", "", "", TRUE, "", 0)
    /\ successes = 0
    /\ voted_ok = {}
    /\ now = t2
    /\ tampered = 0

\* no constructor call or thread in progress
InitAside ==
  /\ mining = << >>
  /\ callers = << >>
  /\ serial = << >>

Init == InitLedger /\ InitAside

\* add_voter without the duplicate check
add_voter_check_nodup(vs, voter_id, name) ==
  IF voter_id = "" \/ name = "" THEN "EmptyField" ELSE ""

\* the early returns of add_voter on the stripped arguments: the error
\* reported, "" when the call goes on
add_voter_check(vs, voter_id, name) ==
  IF voter_id = "" \/ name = "" THEN "EmptyField"
  ELSE IF voter_id \in DOMAIN vs THEN "DuplicateVoterId"
  ELSE ""

\* the early returns of add_candidate on the stripped arguments
add_candidate_check(cs, candidate_id, name) ==
  IF candidate_id = "" \/ name = "" THEN "EmptyField"
  ELSE IF candidate_id \in DOMAIN cs THEN "DuplicateCandidateId"
  ELSE ""

\* cast_vote without the has_voted check
cast_vote_check_novoted(vs, cs, voter_id, candidate_id) ==
  IF voter_id \notin DOMAIN vs THEN "UnknownVoter"
  ELSE IF candidate_id \notin DOMAIN cs THEN "UnknownCandidate"
  ELSE ""

\* cast_vote testing has_voted before the candidate's existence
cast_vote_check_votedfirst(vs, cs, voter_id, candidate_id) ==
  IF voter_id \notin DOMAIN vs THEN "UnknownVoter"
  ELSE IF vs[voter_id].has_voted THEN "AlreadyVoted"
  ELSE IF candidate_id \notin DOMAIN cs THEN "UnknownCandidate"
  ELSE ""

\* the early returns of cast_vote on the stripped arguments
cast_vote_check(vs, cs, voter_id, candidate_id) ==
  IF voter_id \notin DOMAIN vs THEN "UnknownVoter"
  ELSE IF candidate_id \notin DOMAIN cs THEN "UnknownCandidate"
  ELSE IF vs[voter_id].has_voted THEN "AlreadyVoted"
  ELSE ""

\* has_voted never set
mark_voted_noop(vs, voter_id) == vs

\* has_voted set on every voter
mark_voted_all(vs, voter_id) == [k \in DOMAIN vs |-> [vs[k] EXCEPT !.has_voted = TRUE]]

\* self.voters[voter_id].has_voted = True
mark_voted(vs, voter_id) == [vs EXCEPT ![voter_id].has_voted = TRUE]

\* Blockchain.add_voter(voter_id_in, name_in); on the success path time.time()
\* returns t1 for the transaction and t2 for the block
add_voter(voter_id_in, name_in) ==
  LET voter_id == strip(voter_id_in)
      name == strip(name_in)
      err == add_voter_check(voters, voter_id, name)
      voter == Voter(voter_id, name)
  IN  IF err # ""
      THEN /\ result' = Outcome("add_voter", voter_id_in, name_in, FALSE, err, 0)
           /\ UNCHANGED <<difficulty, chain, voters, candidates, successes,
                          voted_ok, now, tampered, aside>>
      ELSE \E t1 \in Later(now) : \E t2 \in Later(t1) :
           /\ Len(chain) < MaxChain
           /\ voters' = Put(voters, voter_id, voter)
           /\ chain' = add_block(chain, difficulty,
                                  <<Transaction_add_voter(voter, t1)>>, t2)
           /\ result' = Outcome("add_voter", voter_id_in, name_in, TRUE, "", 0)
           /\ successes' = successes + 1
           /\ now' = t2
           /\ UNCHANGED <<difficulty, candidates, voted_ok, tampered, aside>>

\* Blockchain.add_candidate(candidate_id_in, name_in)
add_candidate(candidate_id_in, name_in) ==
  LET candidate_id == strip(candidate_id_in)
      name == strip(name_in)
      err == add_candidate_check(candidates, candidate_id, name)
      candidate == Candidate(candidate_id, name)
  IN  IF err # ""
      THEN /\ result' = Outcome("add_candidate", candidate_id_in, name_in, FALSE, err, 0)
           /\ UNCHANGED <<difficulty, chain, voters, candidates, successes,
                          voted_ok, now, tampered, aside>>
      ELSE \E t1 \in Later(now) : \E t2 \in Later(t1) :
           /\ Len(chain) < MaxChain
           /\ candidates' = Put(candidates, candidate_id, candidate)
           /\ chain' = add_block(chain, difficulty,
                                  <<Transaction_add_candidate(candidate, t1)>>, t2)
           /\ result' = Outcome("add_candidate", candidate_id_in, name_in, TRUE, "", 0)
           /\ successes' = successes + 1
           /\ now' = t2
           /\ UNCHANGED <<difficulty, voters, voted_ok, tampered, aside>>

\* Blockchain.cast_vote(voter_id_in, candidate_id_in)
cast_vote(voter_id_in, candidate_id_in) ==
  LET voter_id == strip(voter_id_in)
      candidate_id == strip(candidate_id_in)
      err == cast_vote_check(voters, candidates, voter_id, candidate_id)
  IN  IF err # ""
      THEN /\ result' = Outcome("cast_vote", voter_id_in, candidate_id_in, FALSE, err, 0)
           /\ UNCHANGED <<difficulty, chain, voters, candidates, successes,
                          voted_ok, now, tampered, aside>>
      ELSE \E t1 \in Later(now) : \E t2 \in Later(t1) :
           /\ Len(chain) < MaxChain
           /\ voters' = mark_voted(voters, voter_id)
           /\ chain' = add_block(chain, difficulty,
                                  <<Transaction_cast_vote(voter_id, candidate_id, t1)>>, t2)
           /\ result' = Outcome("cast_vote", voter_id_in, candidate_id_in, TRUE, "", 0)
           /\ successes' = successes + 1
           /\ now' = t2
           /\ voted_ok' = voted_ok \cup {voter_id}
           /\ UNCHANGED <<difficulty, candidates, tampered, aside>>

RECURSIVE validate_from_nohash(_, _, _)
\* validate_chain without the recomputation of the block hash
validate_from_nohash(c, d, i) ==
  IF i >= Len(c) THEN [ok |-> TRUE, msg |-> "", index |-> 0]
  ELSE LET cur == c[i + 1]
           prev == c[i]
       IN  IF ~startswith(cur.hash, Repeat("0", d))
             THEN [ok |-> FALSE, msg |-> "ProofOfWorkNotMet", index |-> i]
           ELSE IF cur.previous_hash # prev.hash
             THEN [ok |-> FALSE, msg |-> "BrokenLink", index |-> i]
           ELSE validate_from_nohash(c, d, i + 1)

RECURSIVE validate_from_linkfirst(_, _, _)
\* validate_chain testing the previous_hash link before the two hash tests
validate_from_linkfirst(c, d, i) ==
  IF i >= Len(c) THEN [ok |-> TRUE, msg |-> "", index |-> 0]
  ELSE LET cur == c[i + 1]
           prev == c[i]
       IN  IF cur.previous_hash # prev.hash
             THEN [ok |-> FALSE, msg |-> "BrokenLink", index |-> i]
           ELSE IF cur.hash # calculate_hash(cur)
             THEN [ok |-> FALSE, msg |-> "HashMismatch", index |-> i]
           ELSE IF ~startswith(cur.hash, Repeat("0", d))
             THEN [ok |-> FALSE, msg |-> "ProofOfWorkNotMet", index |-> i]
           ELSE validate_from_linkfirst(c, d, i + 1)

RECURSIVE validate_from(_, _, _)
\* the for loop of Blockchain.validate_chain from block i on: the return value,
\* and the message and block index printed on failure
validate_from(c, d, i) ==
  IF i >= Len(c) THEN [ok |-> TRUE, msg |-> "", index |-> 0]
  ELSE LET cur == c[i + 1]
           prev == c[i]
       IN  IF cur.hash # calculate_hash(cur)
             THEN [ok |-> FALSE, msg |-> "HashMismatch", index |-> i]
           ELSE IF ~startswith(cur.hash, Repeat("0", d))
             THEN [ok |-> FALSE, msg |-> "ProofOfWorkNotMet", index |-> i]
           ELSE IF cur.previous_hash # prev.hash
             THEN [ok |-> FALSE, msg |-> "BrokenLink", index |-> i]
           ELSE validate_from(c, d, i + 1)

\* what Blockchain.validate_chain returns and prints for chain c
validate_result(c, d) == validate_from(c, d, 1)

\* Blockchain.validate_chain
validate_chain ==
  LET r == validate_result(chain, difficulty)
  IN  /\ result' = Outcome("validate_chain", "", "", r.ok, r.msg, r.index)
      /\ UNCHANGED <<difficulty, chain, voters, candidates, successes,
                     voted_ok, now, tampered, aside>>

\* the menu loop of main(): one call per step
Next ==
  \/ \E a \in VoterCalls : add_voter(a[1], a[2])
  \/ \E a \in CandidateCalls : add_candidate(a[1], a[2])
  \/ \E a \in VoteCalls : cast_vote(a[1], a[2])
  \/ validate_chain

Spec == Init /\ [][Next]_vars

\* ---------------------------------------------------------------- tampering
\* the calls made before a stored field is overwritten
TamperVoterCalls == {<<"V1", "Al">>, <<" V2 ", "Bo">>}
TamperCandidateCalls == {<<"C1", "Ro">>}
TamperVoteCalls == {<<"V1", "C1">>, <<"V2 ", "C1">>}

\* transaction tx with one payload character changed
TamperedPayloads(tx) ==
  CASE tx.tx_type = "ADD_VOTER" ->
         {[tx EXCEPT !.payload.has_voted = TRUE],
          [tx EXCEPT !.payload.name = tx.payload.name \o "x"]}
    [] tx.tx_type = "ADD_CANDIDATE" ->
         {[tx EXCEPT !.payload.name = tx.payload.name \o "x"]}
    [] tx.tx_type = "CAST_VOTE" ->
         {[tx EXCEPT !.payload.candidate_id = "C9"]}
    [] OTHER -> {}

\* the <<field, block>> pairs in which block b of chain c has one stored
\* field set to another value
Tampers(c, b) ==
  LET others(field, values) ==
        {<<field, [b EXCEPT ![field] = v]>> : v \in values \ {b[field]}}
      tx == b.transactions[1]
  IN  others("index", {0, b.index + 1, b.index + 10})
        \cup others("timestamp", {b.timestamp + 1, 10 * b.timestamp})
        \cup others("transactions",
                    {<<>>, c[1].transactions, b.transactions \o b.transactions,
                     <<[tx EXCEPT !.timestamp = tx.timestamp + 1]>>}
                      \cup {<<t>> : t \in TamperedPayloads(tx)})
        \cup others("previous_hash",
                    {ZeroHash, "", "000"} \cup {c[j].hash : j \in 1..Len(c)})
        \cup others("nonce", {0, b.nonce + 1, 10 * b.nonce + 3})
        \cup others("difficulty", {0, 1, b.difficulty + 1, 30 + b.difficulty})
        \cup others("hash",
                    {ZeroHash, "", "000", "000" \o b.hash,
                     calculate_hash([b EXCEPT !.nonce = b.nonce + 1])}
                      \cup {c[j].hash : j \in 1..Len(c)})

\* one stored field of block i (i >= 1) is overwritten from outside the class
tamper(i, field, nb) ==
  /\ tampered = 0
  /\ i \in 1..(Len(chain) - 1)
  /\ <<field, nb>> \in Tampers(chain, chain[i + 1])
  /\ chain' = [chain EXCEPT ![i + 1] = nb]
  /\ tampered' = i
  /\ result' = Outcome("tamper", field, "", TRUE, "", i)
  /\ UNCHANGED <<difficulty, voters, candidates, successes, voted_ok, now, aside>>

\* ledger calls, then one overwritten field, then validation
NextTamper ==
  \/ /\ tampered = 0
     /\ \E a \in TamperVoterCalls : add_voter(a[1], a[2])
  \/ /\ tampered = 0
     /\ \E a \in TamperCandidateCalls : add_candidate(a[1], a[2])
  \/ /\ tampered = 0
     /\ \E a \in TamperVoteCalls : cast_vote(a[1], a[2])
  \/ validate_chain
  \/ /\ tampered = 0
     /\ \E i \in 1..(Len(chain) - 1) :
          \E p \in Tampers(chain, chain[i + 1]) : tamper(i, p[1], p[2])

SpecTamper == Init /\ [][NextTamper]_vars

\* ------------------------------------------------------------ definitions
\* used by the properties
MutatingOps == {"add_voter", "add_candidate", "cast_vote"}

\* the (block, transaction) positions of the chain holding a tx of type ty
TxPositions(c, ty) ==
  {p \in UNION {{<<i, j>> : j \in 1..Len(c[i].transactions)} : i \in 1..Len(c)} :
     c[p[1]].transactions[p[2]].tx_type = ty}

TxAt(c, p) == c[p[1]].transactions[p[2]]

\* -------------------------------------------------------------- properties
\* C1: once cast_vote has returned True for voter v, every later cast_vote
\* call naming v and a registered candidate returns False with the
\* AlreadyVoted message and leaves the chain as it was.
C1_DoubleVoteRejected ==
  [][(/\ result'.op = "cast_vote"
      /\ strip(result'.a1) \in voted_ok
      /\ strip(result'.a2) \in DOMAIN candidates)
     => (/\ result'.ok = FALSE
         /\ result'.msg = "AlreadyVoted"
         /\ chain' = chain)]_vars

\* a second vote of a voter, for a candidate registered after the first vote
C1_Witness ==
  /\ result.op = "cast_vote"
  /\ result.msg = "AlreadyVoted"
  /\ strip(result.a1) \in voted_ok
  /\ \E p \in TxPositions(chain, "ADD_CANDIDATE") :
       /\ TxAt(chain, p).payload.candidate_id = strip(result.a2)
       /\ \E q \in TxPositions(chain, "CAST_VOTE") : q[1] < p[1]

\* C2: the chain holds at most one CAST_VOTE transaction per voter_id, and as
\* many CAST_VOTE transactions as there are voters with has_voted true.
C2_OneVotePerVoter ==
  LET votes == TxPositions(chain, "CAST_VOTE")
  IN  /\ \A p \in votes : \A q \in votes :
           TxAt(chain, p).payload.voter_id = TxAt(chain, q).payload.voter_id => p = q
      /\ Cardinality(votes) = Cardinality({v \in DOMAIN voters : voters[v].has_voted})

\* a voter who has voted was refused a second vote while another has not voted
C2_Witness ==
  /\ Cardinality(TxPositions(chain, "CAST_VOTE")) = 1
  /\ Cardinality(DOMAIN voters) = 2
  /\ result.op = "cast_vote"
  /\ result.msg = "AlreadyVoted"

\* C3: after any sequence of add_voter, add_candidate and cast_vote calls,
\* succeeding or failing, validate_chain returns True.
C3_LedgerChainValid ==
  /\ validate_result(chain, difficulty).ok
  /\ (result.op = "validate_chain" => result.ok /\ result.msg = "")

\* validate_chain has run on a chain holding a voter, a candidate and a vote
C3_Witness ==
  /\ result.op = "validate_chain"
  /\ result.ok
  /\ TxPositions(chain, "CAST_VOTE") # {}
  /\ Len(chain) >= 4

\* C5: a failing add_voter, add_candidate or cast_vote reports one of the six
\* errors and leaves chain, voters and candidates as they were; a succeeding
\* one has both updated its table and appended a block.
C5_AllOrNothing ==
  [][(result'.op \in MutatingOps) =>
       LET id == strip(result'.a1)
           arg2 == strip(result'.a2)
       IN  IF ~result'.ok
           THEN /\ result'.msg \in {"EmptyField", "DuplicateVoterId", "DuplicateCandidateId",
                                    "UnknownVoter", "UnknownCandidate", "AlreadyVoted"}
                /\ chain' = chain /\ voters' = voters /\ candidates' = candidates
           ELSE /\ Len(chain') = Len(chain) + 1
                /\ SubSeq(chain', 1, Len(chain)) = chain
                /\ CASE result'.op = "add_voter" ->
                          /\ id \notin DOMAIN voters
                          /\ DOMAIN voters' = DOMAIN voters \cup {id}
                          /\ voters'[id] =
                               [voter_id |-> id, name |-> arg2, has_voted |-> FALSE]
                          /\ \A k \in DOMAIN voters : voters'[k] = voters[k]
                          /\ candidates' = candidates
                     [] result'.op = "add_candidate" ->
                          /\ id \notin DOMAIN candidates
                          /\ DOMAIN candidates' = DOMAIN candidates \cup {id}
                          /\ candidates'[id] = [candidate_id |-> id, name |-> arg2]
                          /\ \A k \in DOMAIN candidates : candidates'[k] = candidates[k]
                          /\ voters' = voters
                     [] OTHER ->
                          /\ id \in DOMAIN voters /\ ~voters[id].has_voted
                          /\ DOMAIN voters' = DOMAIN voters
                          /\ voters'[id] = [voters[id] EXCEPT !.has_voted = TRUE]
                          /\ \A k \in DOMAIN voters \ {id} : voters'[k] = voters[k]
                          /\ candidates' = candidates]_vars

\* a call has failed on a ledger that earlier calls had changed
C5_Witness ==
  /\ result.op \in MutatingOps
  /\ ~result.ok
  /\ result.msg = "UnknownCandidate"
  /\ voted_ok # {}
  /\ Len(chain) = 1 + successes

\* C6 as stated: add_voter with an id already in the voters table fails with
\* DuplicateVoterId, add_candidate with an id already in the candidates table
\* fails with DuplicateCandidateId, whatever the name argument is.
C6_DuplicateAlwaysReported ==
  [][/\ (result'.op = "add_voter" /\ strip(result'.a1) \in DOMAIN voters)
          => (~result'.ok /\ result'.msg = "DuplicateVoterId")
     /\ (result'.op = "add_candidate" /\ strip(result'.a1) \in DOMAIN candidates)
          => (~result'.ok /\ result'.msg = "DuplicateCandidateId")]_vars

\* the chain holds at most one transaction of type ty per value of field id
OnePerId(ty, idOf(_)) ==
  \A p \in TxPositions(chain, ty) : \A q \in TxPositions(chain, ty) :
     idOf(TxAt(chain, p).payload) = idOf(TxAt(chain, q).payload) => p = q

PayloadVoterId(pl) == pl.voter_id

PayloadCandidateId(pl) == pl.candidate_id

\* C6 (amended): add_voter with an id already in the voters table fails, leaves
\* the chain and the registered voter as they were, and reports
\* DuplicateVoterId when the name is non-empty after stripping (EmptyField
\* otherwise); add_candidate likewise; the chain holds at most one ADD_VOTER
\* per voter_id and one ADD_CANDIDATE per candidate_id.
C6_DuplicateRejected ==
  /\ [][/\ (result'.op = "add_voter" /\ strip(result'.a1) \in DOMAIN voters)
             => /\ ~result'.ok
                /\ result'.msg =
                     (IF strip(result'.a2) = "" THEN "EmptyField" ELSE "DuplicateVoterId")
                /\ chain' = chain
                /\ voters' = voters
        /\ (result'.op = "add_candidate" /\ strip(result'.a1) \in DOMAIN candidates)
             => /\ ~result'.ok
                /\ result'.msg =
                     (IF strip(result'.a2) = "" THEN "EmptyField" ELSE "DuplicateCandidateId")
                /\ chain' = chain
                /\ candidates' = candidates]_vars
  /\ [](OnePerId("ADD_VOTER", PayloadVoterId)
        /\ OnePerId("ADD_CANDIDATE", PayloadCandidateId))

\* a registered voter id was re-submitted under another name and refused
C6_Witness ==
  /\ result.op = "add_voter"
  /\ result.msg = "DuplicateVoterId"
  /\ strip(result.a1) \in DOMAIN voters
  /\ voters[strip(result.a1)].name # strip(result.a2)

\* C7: cast_vote reports UnknownVoter when the voter id is absent, else
\* UnknownCandidate when the candidate id is absent (even if the voter has
\* voted), else AlreadyVoted when has_voted is true, and succeeds otherwise.
C7_CheckOrder ==
  [][(result'.op = "cast_vote") =>
       LET v == strip(result'.a1)
           c == strip(result'.a2)
       IN  /\ v \notin DOMAIN voters
             => (~result'.ok /\ result'.msg = "UnknownVoter")
           /\ (v \in DOMAIN voters /\ c \notin DOMAIN candidates)
             => (~result'.ok /\ result'.msg = "UnknownCandidate")
           /\ (v \in DOMAIN voters /\ c \in DOMAIN candidates)
             => IF voters[v].has_voted
                THEN ~result'.ok /\ result'.msg = "AlreadyVoted"
                ELSE result'.ok /\ result'.msg = ""]_vars

\* a voter who has already voted names an unregistered candidate
C7_Witness ==
  /\ result.op = "cast_vote"
  /\ result.msg = "UnknownCandidate"
  /\ strip(result.a1) \in voted_ok
  /\ voters[strip(result.a1)].has_voted

\* the transaction type a successful call records
TxTypeOf(op) ==
  CASE op = "add_voter" -> "ADD_VOTER"
    [] op = "add_candidate" -> "ADD_CANDIDATE"
    [] OTHER -> "CAST_VOTE"

\* C8: a successful mutation appends exactly one block holding exactly one
\* transaction of the matching type, whose index is the chain length before
\* the append; chain[i].index = i throughout and the chain length is 1 plus
\* the number of successful mutations.
C8_OneBlockPerMutation ==
  /\ [][(result'.op \in MutatingOps /\ result'.ok) =>
          /\ Len(chain') = Len(chain) + 1
          /\ SubSeq(chain', 1, Len(chain)) = chain
          /\ Len(chain'[Len(chain')].transactions) = 1
          /\ chain'[Len(chain')].transactions[1].tx_type = TxTypeOf(result'.op)
          /\ chain'[Len(chain')].index = Len(chain)]_vars
  /\ [](/\ \A i \in 1..Len(chain) : chain[i].index = i - 1
        /\ Len(chain) = 1 + successes)

\* three calls have succeeded, one of each kind
C8_Witness ==
  /\ successes = 3
  /\ result.op = "cast_vote" /\ result.ok
  /\ Len(chain) = 4

\* C9: the chain is never empty, chain[0] holds the single GENESIS transaction
\* and a previous_hash of 64 "0" characters, and every later block's
\* previous_hash is the stored hash of the block before it.
C9_HashLinkage ==
  /\ Len(chain) >= 1
  /\ Len(chain[1].transactions) = 1
  /\ chain[1].transactions[1].tx_type = "GENESIS"
  /\ Len(chain[1].previous_hash) = 64
  /\ \A k \in 1..64 : SubSeq(chain[1].previous_hash, k, k) = "0"
  /\ \A i \in 2..Len(chain) : chain[i].previous_hash = chain[i - 1].hash

\* the chain has grown to four blocks
C9_Witness ==
  /\ Len(chain) >= 4
  /\ chain[4].previous_hash = chain[3].hash
  /\ chain[4].previous_hash # chain[2].hash

\* C10: every block of the chain, genesis included, stores the hash recomputed
\* from its stored fields, that hash starts with difficulty "0" characters,
\* and the block's difficulty is the ledger's.
C10_SealedBlocks ==
  \A i \in 1..Len(chain) :
    /\ chain[i].hash = calculate_hash(chain[i])
    /\ Len(chain[i].hash) >= chain[i].difficulty
    /\ \A k \in 1..chain[i].difficulty : SubSeq(chain[i].hash, k, k) = "0"
    /\ chain[i].difficulty = difficulty

\* a block was sealed after a search that had to move off nonce 0
C10_Witness ==
  \E i \in 1..Len(chain) : chain[i].nonce > 0 /\ i > 1

\* C4: after one stored field of a block i >= 1 of a ledger-built chain is
\* changed, validate_chain returns False and the index it prints is at least i.
C4_TamperDetected ==
  /\ tampered # 0 =>
       /\ ~validate_result(chain, difficulty).ok
       /\ validate_result(chain, difficulty).index >= tampered
  /\ (tampered # 0 /\ result.op = "validate_chain") =>
       (~result.ok /\ result.index >= tampered)

\* validate_chain has run after the previous_hash of a block that is not the
\* last one was overwritten
C4_Witness ==
  /\ tampered # 0
  /\ tampered < Len(chain) - 1
  /\ result.op = "validate_chain"
  /\ ~result.ok
  /\ chain[tampered + 1].previous_hash # chain[tampered].hash

\* one transaction replayed on the tables tabs
ReplayTx(tabs, tx) ==
  CASE tx.tx_type = "ADD_VOTER" ->
         [tabs EXCEPT !.voters =
            [k \in DOMAIN tabs.voters \cup {tx.payload.voter_id} |->
               IF k = tx.payload.voter_id THEN tx.payload ELSE tabs.voters[k]]]
    [] tx.tx_type = "ADD_CANDIDATE" ->
         [tabs EXCEPT !.candidates =
            [k \in DOMAIN tabs.candidates \cup {tx.payload.candidate_id} |->
               IF k = tx.payload.candidate_id THEN tx.payload ELSE tabs.candidates[k]]]
    [] tx.tx_type = "CAST_VOTE" ->
         [tabs EXCEPT !.voters =
            [k \in DOMAIN tabs.voters |->
               IF k = tx.payload.voter_id
               THEN [voter_id |-> tabs.voters[k].voter_id, name |-> tabs.voters[k].name,
                     has_voted |-> TRUE]
               ELSE tabs.voters[k]]]
    [] OTHER -> tabs

RECURSIVE ReplayTxs(_, _, _)
ReplayTxs(tabs, txs, j) ==
  IF j > Len(txs) THEN tabs ELSE ReplayTxs(ReplayTx(tabs, txs[j]), txs, j + 1)

RECURSIVE ReplayChain(_, _, _)
\* the tables rebuilt from blocks i.. of chain c, in chain order
ReplayChain(tabs, c, i) ==
  IF i > Len(c) THEN tabs
  ELSE ReplayChain(ReplayTxs(tabs, c[i].transactions, 1), c, i + 1)

\* C11: replaying the chain's ADD_VOTER, ADD_CANDIDATE and CAST_VOTE
\* transactions in chain order on empty tables yields the ledger's voters and
\* candidates tables.
C11_ReplayEquivalence ==
  LET replayed == ReplayChain([voters |-> << >>, candidates |-> << >>], chain, 1)
  IN  /\ DOMAIN replayed.voters = DOMAIN voters
      /\ \A k \in DOMAIN voters : replayed.voters[k] = voters[k]
      /\ DOMAIN replayed.candidates = DOMAIN candidates
      /\ \A k \in DOMAIN candidates : replayed.candidates[k] = candidates[k]

\* the chain holds two voters, a candidate and the vote of one of the voters
C11_Witness ==
  /\ Cardinality(DOMAIN voters) = 2
  /\ Cardinality(DOMAIN candidates) = 1
  /\ Cardinality({k \in DOMAIN voters : voters[k].has_voted}) = 1
  /\ Cardinality(TxPositions(chain, "CAST_VOTE")) = 1

\* C12: every ADD_VOTER payload in the chain has has_voted false, also after
\* the voter has voted; a successful cast_vote changes no block already in the
\* chain, and every stored hash still matches its recomputed hash.
C12_CopyOnRecord ==
  /\ [](/\ \A p \in TxPositions(chain, "ADD_VOTER") :
             TxAt(chain, p).payload.has_voted = FALSE
        /\ \A i \in 1..Len(chain) : chain[i].hash = calculate_hash(chain[i]))
  /\ [][(result'.op = "cast_vote" /\ result'.ok) =>
          /\ Len(chain') > Len(chain)
          /\ \A i \in 1..Len(chain) : chain'[i] = chain[i]]_vars

\* a voter has voted and the ADD_VOTER payload recorded for them is unchanged
C12_Witness ==
  \E p \in TxPositions(chain, "ADD_VOTER") :
    LET pl == TxAt(chain, p).payload
    IN  /\ pl.voter_id \in DOMAIN voters
        /\ voters[pl.voter_id].has_voted
        /\ ~pl.has_voted
        /\ pl.name = voters[pl.voter_id].name

\* C13: the chain before a step is a prefix of the chain after it: no block
\* is removed, reordered or changed in any stored field.
C13_AppendOnly ==
  [][/\ Len(chain') >= Len(chain)
     /\ \A i \in 1..Len(chain) : chain'[i] = chain[i]]_vars

\* the chain has grown by four appends and a call has failed since
C13_Witness ==
  /\ Len(chain) >= 5
  /\ successes >= 4
  /\ ~result.ok

\* t is s without its leading and trailing whitespace
IsStripOf(s, t) ==
  \/ /\ t = ""
     /\ \A k \in 1..Len(s) : SubSeq(s, k, k) \in {" ", "\t", "\n"}
  \/ \E i \in 1..Len(s) : \E j \in i..Len(s) :
       /\ t = SubSeq(s, i, j)
       /\ SubSeq(s, i, i) \notin {" ", "\t", "\n"}
       /\ SubSeq(s, j, j) \notin {" ", "\t", "\n"}
       /\ \A k \in (1..(i - 1)) \cup ((j + 1)..Len(s)) :
            SubSeq(s, k, k) \in {" ", "\t", "\n"}

Trimmed(s) ==
  CHOOSE t \in {""} \cup {SubSeq(s, i, j) : i \in 1..Len(s), j \in 1..Len(s)} :
    IsStripOf(s, t)

\* C14: add_voter and add_candidate act on their arguments with leading and
\* trailing whitespace removed: EmptyField exactly when a trimmed argument is
\* empty, otherwise a duplicate exactly when the trimmed id is registered,
\* otherwise the trimmed id and name are stored in the table and in the
\* transaction payload; cast_vote looks up the trimmed ids.
C14_InputTrimming ==
  [][(result'.op \in MutatingOps) =>
       LET x == Trimmed(result'.a1)
           y == Trimmed(result'.a2)
           tx == chain'[Len(chain')].transactions[1]
       IN  CASE result'.op = "add_voter" ->
                  /\ (result'.msg = "EmptyField") <=> (x = "" \/ y = "")
                  /\ (result'.msg = "DuplicateVoterId")
                       <=> (x # "" /\ y # "" /\ x \in DOMAIN voters)
                  /\ result'.ok =>
                       /\ DOMAIN voters' = DOMAIN voters \cup {x}
                       /\ voters'[x] = [voter_id |-> x, name |-> y, has_voted |-> FALSE]
                       /\ tx.payload.voter_id = x /\ tx.payload.name = y
             [] result'.op = "add_candidate" ->
                  /\ (result'.msg = "EmptyField") <=> (x = "" \/ y = "")
                  /\ (result'.msg = "DuplicateCandidateId")
                       <=> (x # "" /\ y # "" /\ x \in DOMAIN candidates)
                  /\ result'.ok =>
                       /\ DOMAIN candidates' = DOMAIN candidates \cup {x}
                       /\ candidates'[x] = [candidate_id |-> x, name |-> y]
                       /\ tx.payload.candidate_id = x /\ tx.payload.name = y
             [] OTHER ->
                  /\ (result'.msg = "UnknownVoter") <=> (x \notin DOMAIN voters)
                  /\ (result'.msg = "UnknownCandidate")
                       <=> (x \in DOMAIN voters /\ y \notin DOMAIN candidates)
                  /\ result'.ok =>
                       /\ x \in DOMAIN voters'
                       /\ voters'[x].has_voted
                       /\ tx.payload = [voter_id |-> x, candidate_id |-> y]]_vars

\* an id with surrounding whitespace was refused as a duplicate of its
\* trimmed form, whose registration kept the trimmed name
C14_Witness ==
  /\ result.op = "add_voter"
  /\ result.a1 = " V1 "
  /\ result.msg = "DuplicateVoterId"
  /\ "V1" \in DOMAIN voters
  /\ \E p \in TxPositions(chain, "ADD_CANDIDATE") :
       TxAt(chain, p).payload = [candidate_id |-> "C2", name |-> "Li"]

\* C15: a registered voter or candidate is never removed and keeps its id and
\* name; has_voted only goes from false to true, and only by a successful
\* cast_vote naming that voter; cast_vote leaves the candidates table alone.
C15_TablesMonotone ==
  [][/\ DOMAIN voters \subseteq DOMAIN voters'
     /\ DOMAIN candidates \subseteq DOMAIN candidates'
     /\ \A k \in DOMAIN candidates : candidates'[k] = candidates[k]
     /\ \A k \in DOMAIN voters :
          /\ voters'[k].voter_id = voters[k].voter_id
          /\ voters'[k].name = voters[k].name
          /\ voters[k].has_voted => voters'[k].has_voted
          /\ (voters'[k].has_voted # voters[k].has_voted) =>
               (result'.op = "cast_vote" /\ result'.ok /\ Trimmed(result'.a1) = k)
     /\ (result'.op = "cast_vote") => candidates' = candidates]_vars

\* one of two registered voters has just voted, the other has not
C15_Witness ==
  /\ result.op = "cast_vote" /\ result.ok
  /\ Cardinality(DOMAIN voters) = 2
  /\ \E k \in DOMAIN voters : ~voters[k].has_voted

\* ---- Block construction, one statement group per step ----

\* the largest nonce a search is followed to
MaxNonce == 9

\* two constructor calls followed side by side
Runs == {1, 2}

\* the arguments of a Block constructor call
MineArgs ==
  [index : {0, 1},
   transactions : {<<GenesisTx(1)>>, <<Transaction_cast_vote("V1", "C1", 1)>>},
   previous_hash : {ZeroHash},
   difficulty : {1, 3, 4}]

\* a constructor call that has received its arguments and run no statement
NewRun(a) ==
  [pc |-> "new", index |-> a.index, timestamp |-> 0, transactions |-> a.transactions,
   previous_hash |-> a.previous_hash, nonce |-> 0, difficulty |-> a.difficulty,
   h |-> "", hash |-> ""]

\* the ledger's own variables, which a constructor call does not touch
ledger ==
  <<difficulty, chain, voters, candidates, result, successes, voted_ok, now, tampered>>

\* two constructor calls, each with arguments of its own
InitMine ==
  /\ InitLedger
  /\ mining \in [Runs -> {NewRun(a) : a \in MineArgs}]
  /\ callers = << >>
  /\ serial = << >>

\* one constructor call
InitMineOne ==
  /\ InitLedger
  /\ mining \in [{1} -> {NewRun(a) : a \in MineArgs}]
  /\ callers = << >>
  /\ serial = << >>

\* Block.__init__ up to the call of mine_block: timestamp = time.time(), nonce = 0
Block_init(r) ==
  /\ mining[r].pc = "new"
  /\ \E t \in Times :
       mining' = [mining EXCEPT ![r] = [@ EXCEPT !.pc = "mine", !.timestamp = t, !.nonce = 0]]
  /\ UNCHANGED <<ledger, callers, serial>>

\* mine_block before its loop: h = self.calculate_hash()
mine_enter(r) ==
  /\ mining[r].pc = "mine"
  /\ mining' = [mining EXCEPT ![r] = [@ EXCEPT !.pc = "loop", !.h = calculate_hash(mining[r])]]
  /\ UNCHANGED <<ledger, callers, serial>>

\* a loop body that leaves the nonce as it is
mine_loop_body_noinc(m) == [m EXCEPT !.h = calculate_hash(m)]

\* a loop body that steps the nonce by two
mine_loop_body_skip(m) ==
  [m EXCEPT !.nonce = m.nonce + 2, !.h = calculate_hash([m EXCEPT !.nonce = m.nonce + 2])]

\* the loop body of mine_block: self.nonce += 1; h = self.calculate_hash()
mine_loop_body(m) ==
  [m EXCEPT !.nonce = m.nonce + 1, !.h = calculate_hash([m EXCEPT !.nonce = m.nonce + 1])]

\* one test of the loop condition of mine_block: the body when h misses the
\* prefix, else return h, which the constructor stores in self.hash
mine_loop(r) ==
  /\ mining[r].pc = "loop"
  /\ IF startswith(mining[r].h, Repeat("0", mining[r].difficulty))
     THEN mining' = [mining EXCEPT ![r] = [@ EXCEPT !.pc = "done", !.hash = mining[r].h]]
     ELSE /\ mining[r].nonce < MaxNonce
          /\ mining' = [mining EXCEPT ![r] = mine_loop_body(mining[r])]
  /\ UNCHANGED <<ledger, callers, serial>>

NextMine ==
  \/ \E r \in DOMAIN mining : Block_init(r)
  \/ \E r \in DOMAIN mining : mine_enter(r)
  \/ \E r \in DOMAIN mining : mine_loop(r)

SpecMine == InitMine /\ [][NextMine]_vars

\* a constructor call that has started keeps running
SpecMineFair == InitMineOne /\ [][NextMine]_vars /\ WF_vars(NextMine)

\* some nonce up to MaxNonce gives block m a hash with the required prefix
Satisfiable(m) ==
  \E n \in 0..MaxNonce :
    startswith(calculate_hash([m EXCEPT !.nonce = n]), Repeat("0", m.difficulty))

\* call m has returned a hash that is the block's hash and meets the target
Sealed(m) ==
  /\ m.pc = "done"
  /\ m.hash = calculate_hash(m)
  /\ startswith(m.hash, Repeat("0", m.difficulty))

\* C16: a Block constructor call with a positive difficulty that some nonce
\* satisfies eventually returns, and the hash it stores equals calculate_hash()
\* under the final nonce and starts with difficulty zeros.
C16_MiningTerminates ==
  (/\ mining[1].pc \in {"mine", "loop"}
   /\ mining[1].difficulty > 0
   /\ Satisfiable(mining[1]))
    ~> Sealed(mining[1])

\* a search that needed several attempts has returned a sealed block
C16_Witness ==
  /\ DOMAIN mining = {1}
  /\ Sealed(mining[1])
  /\ mining[1].nonce >= 3
  /\ mining[1].difficulty = 3

\* the fields of run r that the search must leave alone
SearchInputs(m) ==
  <<m.index, m.timestamp, m.transactions, m.previous_hash, m.difficulty>>

\* C17: the search starts at nonce 0 and each attempt adds 1 to the nonce and
\* changes no other field, so the sealed nonce is the smallest whose hash meets
\* the target; two runs with equal arguments and timestamp return the same
\* nonce and hash.
C17_LinearSearch ==
  /\ [][\A r \in Runs :
          /\ (mining[r].pc = "new" /\ mining'[r].pc = "mine") => mining'[r].nonce = 0
          /\ (mining[r].pc \in {"mine", "loop"}) =>
               /\ SearchInputs(mining'[r]) = SearchInputs(mining[r])
               /\ mining'[r].nonce \in {mining[r].nonce, mining[r].nonce + 1}
               /\ (mining'[r].pc = "done") => mining'[r].nonce = mining[r].nonce]_vars
  /\ [](\A r \in Runs :
          (mining[r].pc = "done") =>
             /\ Sealed(mining[r])
             /\ \A n \in 0..(mining[r].nonce - 1) :
                  ~startswith(calculate_hash([mining[r] EXCEPT !.nonce = n]),
                              Repeat("0", mining[r].difficulty)))
  /\ [](\A r1, r2 \in Runs :
          (/\ mining[r1].pc = "done" /\ mining[r2].pc = "done"
           /\ SearchInputs(mining[r1]) = SearchInputs(mining[r2])) =>
             /\ mining[r1].nonce = mining[r2].nonce
             /\ mining[r1].hash = mining[r2].hash)

\* two runs with equal arguments and timestamp have both returned after
\* several attempts
C17_Witness ==
  /\ \A r \in Runs : mining[r].pc = "done" /\ mining[r].nonce >= 2
  /\ SearchInputs(mining[1]) = SearchInputs(mining[2])

\* ---- rewritten blocks: validate_chain on chains the ledger did not build ----

\* the longest chain the ledger builds before blocks are rewritten
MaxForgeChain == 4

\* block b with its hash recomputed over its present fields
Resealed(b) == [b EXCEPT !.hash = calculate_hash(b)]

\* block b mined again from nonce 0 over its present fields
Remined(b) ==
  LET m == mine_block([b EXCEPT !.nonce = 0])
  IN  [b EXCEPT !.nonce = m.nonce, !.hash = m.h]

\* the blocks that may be written over block i (i >= 1) of chain c: a
\* transaction or the previous_hash is changed, and the stored hash is left
\* as it was, recomputed, or mined again
Forgeries(c, i) ==
  LET b == c[i + 1]
      tx == b.transactions[1]
      changed ==
        {[b EXCEPT !.transactions = <<[tx EXCEPT !.timestamp = tx.timestamp + 1]>>]}
          \cup {[b EXCEPT !.previous_hash = v] : v \in {ZeroHash, c[i].hash} \ {b.previous_hash}}
  IN  changed \cup {Resealed(x) : x \in changed} \cup {Remined(x) : x \in changed}

\* chain c with block i overwritten
ForgedAt(c, i) == {[c EXCEPT ![i + 1] = nb] : nb \in Forgeries(c, i)}

\* chain c with one block, or two blocks one after the other, overwritten
ForgedChains(c) ==
  LET once == UNION {ForgedAt(c, i) : i \in 1..(Len(c) - 1)}
      first(c1) == CHOOSE i \in 1..(Len(c) - 1) : c1[i + 1] # c[i + 1]
  IN  once \cup UNION {UNION {ForgedAt(c1, j) : j \in (first(c1) + 1)..(Len(c) - 1)} :
                         c1 \in once}

\* stored blocks are overwritten from outside the class by those of nc, a
\* chain of the same length
forge(nc) ==
  /\ tampered = 0
  /\ chain' = nc
  /\ tampered' = CHOOSE i \in 1..(Len(chain) - 1) :
                   /\ nc[i + 1] # chain[i + 1]
                   /\ \A j \in 1..(i - 1) : nc[j + 1] = chain[j + 1]
  /\ result' = Outcome("forge", "", "", TRUE, "", 0)
  /\ UNCHANGED <<difficulty, voters, candidates, successes, voted_ok, now, aside>>

\* a ledger whose clock has reached the last of Times
InitForge == Init /\ now = 2

\* ledger calls, then blocks overwritten, then validation
NextForge ==
  \/ /\ tampered = 0 /\ Len(chain) < MaxForgeChain
     /\ \E a \in TamperVoterCalls : add_voter(a[1], a[2])
  \/ /\ tampered = 0 /\ Len(chain) < MaxForgeChain
     /\ \E a \in TamperCandidateCalls : add_candidate(a[1], a[2])
  \/ /\ tampered = 0 /\ Len(chain) < MaxForgeChain
     /\ \E a \in TamperVoteCalls : cast_vote(a[1], a[2])
  \/ validate_chain
  \/ /\ tampered = 0 /\ Len(chain) > 1
     /\ \E nc \in ForgedChains(chain) : forge(nc)

SpecForge == InitForge /\ [][NextForge]_vars

\* the three tests validate_chain makes on block i of chain c
HashBad(c, i) == c[i + 1].hash # calculate_hash(c[i + 1])
WorkBad(c, d, i) ==
  \E k \in 1..d : k > Len(c[i + 1].hash) \/ SubSeq(c[i + 1].hash, k, k) # "0"
LinkBad(c, i) == c[i + 1].previous_hash # c[i].hash

BadBlocks(c, d) ==
  {i \in 1..(Len(c) - 1) : HashBad(c, i) \/ WorkBad(c, d, i) \/ LinkBad(c, i)}

\* C18: validate_chain returns invalid exactly when some block i >= 1 has a
\* stored hash different from its recomputed hash, or a stored hash lacking
\* difficulty leading zeros, or a previous_hash different from the stored hash
\* of block i-1; it reports the smallest such i with the first reason that
\* applies in the order HashMismatch, ProofOfWorkNotMet, BrokenLink; it changes
\* neither the chain nor the tables.
C18_ValidateCharacterised ==
  [][(result'.op = "validate_chain") =>
       LET bad == BadBlocks(chain, difficulty)
           i == CHOOSE x \in bad : \A y \in bad : x <= y
       IN  /\ result'.ok <=> (bad = {})
           /\ (bad = {}) => (result'.msg = "" /\ result'.index = 0)
           /\ (bad # {}) =>
                /\ result'.index = i
                /\ result'.msg = IF HashBad(chain, i) THEN "HashMismatch"
                                 ELSE IF WorkBad(chain, difficulty, i) THEN "ProofOfWorkNotMet"
                                 ELSE "BrokenLink"
           /\ chain' = chain
           /\ voters' = voters
           /\ candidates' = candidates
           /\ difficulty' = difficulty]_vars

\* validate_chain has reported a broken link at a block whose own hash is
\* right and meets the target, ahead of a later block that fails too
C18_Witness ==
  /\ result.op = "validate_chain"
  /\ result.msg = "BrokenLink"
  /\ Cardinality(BadBlocks(chain, difficulty)) >= 2
  /\ result.index \in BadBlocks(chain, difficulty)

\* ---- the hash input as a function of the six block fields ----

\* the field tuples (index, timestamp, transactions, previous_hash, nonce,
\* difficulty) the hash input is built from
SerialTuples ==
  [index : {1, 11},
   timestamp : {2, 12},
   transactions : {<<GenesisTx(1)>>},
   previous_hash : {"0a", "0a1"},
   nonce : {1, 12},
   difficulty : {3, 23}]

\* two field tuples, neither serialized yet
InitSerial ==
  /\ InitLedger
  /\ mining = << >>
  /\ callers = << >>
  /\ serial \in [a : SerialTuples, b : SerialTuples, sa : {""}, sb : {""}, ha : {""}, hb : {""}]

\* calculate_hash on the first tuple: the block_string and its digest
serialize_a ==
  /\ serial.sa = ""
  /\ serial' = [serial EXCEPT !.sa = block_string(serial.a), !.ha = calculate_hash(serial.a)]
  /\ UNCHANGED <<ledger, mining, callers>>

\* calculate_hash on the second tuple
serialize_b ==
  /\ serial.sb = ""
  /\ serial' = [serial EXCEPT !.sb = block_string(serial.b), !.hb = calculate_hash(serial.b)]
  /\ UNCHANGED <<ledger, mining, callers>>

NextSerial == serialize_a \/ serialize_b

SpecSerial == InitSerial /\ [][NextSerial]_vars

\* C19: two field tuples that differ in at least one field serialize to
\* different hash inputs and so have different hashes.
C19_Unambiguous ==
  (serial.sa # "" /\ serial.sb # "" /\ serial.a # serial.b) =>
    (serial.sa # serial.sb /\ serial.ha # serial.hb)

\* ---- two threads calling the ledger, one statement group per step ----

Threads == {1, 2}

\* the calls a thread may make: <<operation, first argument, second argument>>
ConcCalls ==
  {<<"add_voter", "V1", "Al">>, <<"add_voter", " V1 ", "Bo">>,
   <<"add_candidate", "C1", "Ro">>, <<"cast_vote", "V1", "C1">>}

\* a thread outside every ledger operation
Idle == [pc |-> "idle", op |-> "", a1 |-> "", a2 |-> "", txs |-> << >>, b |-> << >>]

\* the threads inside an operation
Busy == {t \in Threads : callers[t].pc # "idle"}

InitConc ==
  /\ InitLedger
  /\ now = 2
  /\ mining = << >>
  /\ serial = << >>
  /\ callers = [t \in Threads |-> Idle]

\* the early returns of operation op on the stripped arguments x, y
conc_check_error(op, x, y) ==
  CASE op = "add_voter" -> add_voter_check(voters, x, y)
    [] op = "add_candidate" -> add_candidate_check(candidates, x, y)
    [] OTHER -> cast_vote_check(voters, candidates, x, y)

\* thread t enters an operation, strips its arguments and runs the tests that
\* return False (lines 98-105, 113-120, 129-139)
conc_check(t, op, a1, a2) ==
  LET x == strip(a1)
      y == strip(a2)
      err == conc_check_error(op, x, y)
  IN  /\ callers[t].pc = "idle"
      /\ IF err # ""
         THEN /\ result' = Outcome(op, a1, a2, FALSE, err, 0)
              /\ UNCHANGED callers
         ELSE /\ Len(chain) + Cardinality(Busy) < MaxChain
              /\ callers' = [callers EXCEPT ![t] =
                   [pc |-> "update", op |-> op, a1 |-> x, a2 |-> y, txs |-> << >>, b |-> << >>]]
              /\ UNCHANGED result
      /\ UNCHANGED <<difficulty, chain, voters, candidates, successes, voted_ok, now,
                     tampered, mining, serial>>

\* thread t writes the table and builds its transaction (lines 106-108,
\* 121-123, 140-141 up to the call of _add_block)
conc_update(t) ==
  LET c == callers[t]
  IN  /\ c.pc = "update"
      /\ \E t1 \in Later(now) :
           /\ now' = t1
           /\ CASE c.op = "add_voter" ->
                     /\ voters' = Put(voters, c.a1, Voter(c.a1, c.a2))
                     /\ callers' = [callers EXCEPT ![t].pc = "build",
                          ![t].txs = <<Transaction_add_voter(Voter(c.a1, c.a2), t1)>>]
                     /\ UNCHANGED candidates
                [] c.op = "add_candidate" ->
                     /\ candidates' = Put(candidates, c.a1, Candidate(c.a1, c.a2))
                     /\ callers' = [callers EXCEPT ![t].pc = "build",
                          ![t].txs = <<Transaction_add_candidate(Candidate(c.a1, c.a2), t1)>>]
                     /\ UNCHANGED voters
                [] OTHER ->
                     /\ voters' = mark_voted(voters, c.a1)
                     /\ callers' = [callers EXCEPT ![t].pc = "build",
                          ![t].txs = <<Transaction_cast_vote(c.a1, c.a2, t1)>>]
                     /\ UNCHANGED candidates
      /\ UNCHANGED <<difficulty, chain, result, successes, voted_ok, tampered, mining, serial>>

\* thread t in _add_block: Block(len(self.chain), txs, latest hash, difficulty)
\* is built and mined (line 92)
conc_build(t) ==
  /\ callers[t].pc = "build"
  /\ \E t2 \in Later(now) :
       /\ now' = t2
       /\ callers' = [callers EXCEPT ![t].pc = "append",
            ![t].b = Block(Len(chain), callers[t].txs, get_latest_block(chain).hash,
                           difficulty, t2)]
  /\ UNCHANGED <<difficulty, chain, voters, candidates, result, successes, voted_ok,
                 tampered, mining, serial>>

\* thread t appends its block and returns True (lines 93, 110, 125, 143)
conc_append(t) ==
  LET c == callers[t]
  IN  /\ c.pc = "append"
      /\ chain' = Append(chain, c.b)
      /\ result' = Outcome(c.op, c.a1, c.a2, TRUE, "", 0)
      /\ successes' = successes + 1
      /\ voted_ok' = IF c.op = "cast_vote" THEN voted_ok \cup {c.a1} ELSE voted_ok
      /\ callers' = [callers EXCEPT ![t] = Idle]
      /\ UNCHANGED <<difficulty, voters, candidates, now, tampered, mining, serial>>

NextConc ==
  \/ \E t \in Threads : \E a \in ConcCalls : conc_check(t, a[1], a[2], a[3])
  \/ \E t \in Threads : conc_update(t)
  \/ \E t \in Threads : conc_build(t)
  \/ \E t \in Threads : conc_append(t)

SpecConc == InitConc /\ [][NextConc]_vars

\* C20: with two callers interleaved, the chain never holds two votes by one
\* voter, two registrations of one id, or two blocks with the same index or
\* the same previous_hash.
C20_AtomicOperations ==
  /\ OnePerId("CAST_VOTE", PayloadVoterId)
  /\ OnePerId("ADD_VOTER", PayloadVoterId)
  /\ OnePerId("ADD_CANDIDATE", PayloadCandidateId)
  /\ \A i \in 1..Len(chain) : \A j \in 1..Len(chain) :
       (i # j) => /\ chain[i].index # chain[j].index
                  /\ chain[i].previous_hash # chain[j].previous_hash

====
